---- MODULE Spec2Model ----
(***************************************************************************)
(* Model of src/index.js: the "Million Token Frame" server.                *)
(*                                                                         *)
(* One Node.js process runs every request handler on a single event loop:  *)
(* a handler runs without interruption from one await to the next, and     *)
(* other handlers (and the completions of file operations) run only at     *)
(* the awaits.  Each action below is one such uninterrupted stretch of a   *)
(* handler, or one step of a file operation carried out by the runtime.    *)
(***************************************************************************)
EXTENDS Integers, Sequences, FiniteSets, TLC

(***************************************************************************)
(* Bounds of the model.  The source's lattice is 100 x 100 tiles; the      *)
(* model keeps TOKEN_SIZE and scales the number of tiles per side.         *)
(***************************************************************************)
LatticeSide == 2
MaxReq == 2
MaxCrash == 1

TOKEN_SIZE == 10
GRID_SIZE == LatticeSide * TOKEN_SIZE

Reqs == 1..MaxReq

\* The values the loop variables of lines 63-64 and 184-185 take.
Coords == {c \in 0..(GRID_SIZE - 1) : c % TOKEN_SIZE = 0}

\* Values of untrustedData.fid, as property keys.  "constructor" is a name
\* every plain object inherits from Object.prototype.
FIDs == {"1", "2", "constructor"}
ObjectPrototypeKeys == {"constructor"}

\* What client.validateMessage can come to: a valid message, a message the
\* hub reports as not valid, or an error (Err result or an exception).
HubResults == {"valid", "invalid", "error"}

\* The identities whose signed message a request can carry in
\* trustedData.messageBytes (the fid inside the message the hub validates).
\* One is enough: what matters is whether the fid of the body equals it.
Signers == {"1"}

Null == "null"
NoPos == [x |-> -1, y |-> -1]

EmptyGrid == [y \in Coords |-> [x \in Coords |-> Null]]
EmptyUserPixels == [f \in {} |-> <<>>]

(***************************************************************************)
(* Files.  A file is absent (ENOENT), holds a JSON document, or holds the  *)
(* partial content an interrupted fs.writeFile leaves (not valid JSON).    *)
(***************************************************************************)
AbsentFile == [st |-> "absent", grid |-> <<>>, users |-> {}]
TornFile == [st |-> "torn", grid |-> <<>>, users |-> {}]

\* A fid that is a non-finite number: the body {"fid": 1e400} parses to
\* Infinity, whose property key is "Infinity".
NonFiniteFids == {"Infinity"}

\* The cell { fid: null }, which only a parse can produce.
NullFid == "fid:null"

\* JSON.stringify of one cell: null stays null; an object keeps its fid,
\* except that a non-finite number is written as null.
CellJson(c) ==
  IF c = Null THEN [type |-> "null", fid |-> ""]
  ELSE IF c \in NonFiniteFids \/ c = NullFid THEN [type |-> "object", fid |-> "null"]
  ELSE [type |-> "object", fid |-> c]

\* JSON.parse of one cell.
CellParse(j) ==
  IF j.type = "null" THEN Null
  ELSE IF j.fid = "null" THEN NullFid
  ELSE j.fid

\* The text of grid.json: the rows in index order, each the cells in index
\* order (the model carries the lattice cells; the others are always null).
GridJson(g) ==
  [i \in 1..LatticeSide |->
     [j \in 1..LatticeSide |-> CellJson(g[(i - 1) * TOKEN_SIZE][(j - 1) * TOKEN_SIZE])]]

ParseGrid(d) ==
  [y \in Coords |->
     [x \in Coords |-> CellParse(d[(y \div TOKEN_SIZE) + 1][(x \div TOKEN_SIZE) + 1])]]

\* The text of user_pixels.json: one member per own property.
UsersJson(u) == {[key |-> f, value |-> u[f]] : f \in DOMAIN u}

ParseUsers(d) ==
  [f \in {m.key : m \in d} |-> (CHOOSE m \in d : m.key = f).value]

StringifyGrid(g) == [st |-> "json", grid |-> GridJson(g), users |-> {}]
StringifyUsers(u) == [st |-> "json", grid |-> <<>>, users |-> UsersJson(u)]

VARIABLES
  grid,             \* the in-memory grid, grid[y][x] is Null or the owner's fid
  userPixels,       \* own properties of the userPixels object: fid -> list of positions
  gridFile,         \* grid.json
  userFile,         \* user_pixels.json
  up,               \* the process is running and listening
  crashes,          \* number of crashes so far
  pc,               \* where each request's handler is
  hub,              \* what the hub answered for the request's message
  signer,           \* the identity that signed the request's validated message
  fid,              \* the handler's local fid
  claimedPosition,  \* the handler's local claimedPosition
  buf,              \* the string handed to the handler's pending fs.writeFile
  err,              \* the error the handler's promise was rejected with
  response,         \* the response the caller has received
  events,           \* per request: what its handler has done, in order
  grants,           \* every in-memory grant so far, in order
  image,            \* per request: what its generateImage call painted
  frameImage,       \* what the last GET /frame-image painted
  pixelsReply       \* the body of the last GET /api/user-pixels reply

vars == <<grid, userPixels, gridFile, userFile, up, crashes, pc, hub, signer, fid,
          claimedPosition, buf, err, response, events, grants, image,
          frameImage, pixelsReply>>

disk == <<gridFile, userFile>>
memory == <<grid, userPixels>>
locals == <<hub, signer, fid, claimedPosition, buf, err, response, events>>


(***************************************************************************)
(* The claim scan of POST /api/frame (lines 184-193).                      *)
(***************************************************************************)
\* A plausible slip: the indices swapped in the test (grid[x][y]).
CellFreeTransposed(g, y, x) == g[x][y] = Null

\* A plausible slip: the test dropped, the first cell always taken.
CellFreeAlways(g, y, x) == TRUE

\* line 186: !grid[y][x]
CellFree(g, y, x) == g[y][x] = Null

RECURSIVE ScanFrom(_, _, _)
ScanFrom(g, y, x) ==
  IF ~(y < GRID_SIZE) THEN NoPos
  ELSE IF ~(x < GRID_SIZE) THEN ScanFrom(g, y + TOKEN_SIZE, 0)
  ELSE IF CellFree(g, y, x) THEN [x |-> x, y |-> y]
  ELSE ScanFrom(g, y, x + TOKEN_SIZE)

\* A plausible slip: the loops nested the other way round (x outer, y inner).
RECURSIVE ScanColumnsFrom(_, _, _)
ScanColumnsFrom(g, x, y) ==
  IF ~(x < GRID_SIZE) THEN NoPos
  ELSE IF ~(y < GRID_SIZE) THEN ScanColumnsFrom(g, x + TOKEN_SIZE, 0)
  ELSE IF CellFree(g, y, x) THEN [x |-> x, y |-> y]
  ELSE ScanColumnsFrom(g, x, y + TOKEN_SIZE)

ScanColumnMajor(g) == ScanColumnsFrom(g, 0, 0)

\* The position the two loops stop at, NoPos when they run to the end.
Scan(g) == ScanFrom(g, 0, 0)

\* line 187: grid[y][x] = { fid }
MarkCell(g, pos, f) == [g EXCEPT ![pos.y][pos.x] = f]

\* line 196: userPixels[fid] is truthy for an own list and for a property
\* inherited from Object.prototype.
UserPixelsTruthy(u, f) == f \in DOMAIN u \/ f \in ObjectPrototypeKeys

\* line 199: an inherited property is not an array, .push is undefined and
\* calling it throws a TypeError.
PushThrows(u, f) == f \notin DOMAIN u /\ f \in ObjectPrototypeKeys

\* lines 196-199, when they do not throw.
PushPixel(u, f, pos) ==
  IF UserPixelsTruthy(u, f)
    THEN [u EXCEPT ![f] = Append(@, pos)]
    ELSE (f :> <<pos>>) @@ u

(***************************************************************************)
(* loadData (lines 25-36): any failure of a read or a parse leaves what    *)
(* was assigned before it and keeps the initial value of the rest.         *)
(***************************************************************************)
LoadData(gf, uf) ==
  IF gf.st # "json" THEN [grid |-> EmptyGrid, userPixels |-> EmptyUserPixels]
  ELSE IF uf.st # "json"
    THEN [grid |-> ParseGrid(gf.grid), userPixels |-> EmptyUserPixels]
  ELSE [grid |-> ParseGrid(gf.grid), userPixels |-> ParseUsers(uf.users)]

\* line 96: result.isOk() && result.value.valid; line 99: false on an error.
VerifiedIsOkOnly(h) == h \in {"valid", "invalid"}

Verified(h) == h = "valid"

\* lines 195-203: a claim goes on to saveData, anything else to generateImage.
AfterClaimNoSave(claimed) == "render"

AfterClaimAlwaysSave(claimed) == "grid_queued"

AfterClaim(claimed) == IF claimed THEN "grid_queued" ELSE "render"

(***************************************************************************)
(* generateImage (lines 55-89), up to its first await: the tile loop and   *)
(* the highlight step run in one stretch, on the grid as it is at the      *)
(* call.  Colours are kept as terms over the arguments of                  *)
(* generatePixelColor; the caption and the encoding are the same for       *)
(* every image and are left out.                                           *)
(***************************************************************************)
ImageWidth == 1200

\* JavaScript values handed to generateImage as newPixelX, newPixelY.
JsNull == [t |-> "null", v |-> 0]
JsUndefined == [t |-> "undefined", v |-> 0]
JsNumber(n) == [t |-> "number", v |-> n]

\* line 203: claimedPosition?.x is undefined when claimedPosition is null.
OptionalX(pos) == IF pos = NoPos THEN JsUndefined ELSE JsNumber(pos.x)
OptionalY(pos) == IF pos = NoPos THEN JsUndefined ELSE JsNumber(pos.y)

\* lines 43-53: the colour is a function of x, y and the flag alone.
generatePixelColor(x, y, claimed) == [x |-> x, y |-> y, claimed |-> claimed]

\* A plausible slip: the flag tells whose tile it is (owner "1" only).
IsClaimedByFirst(cell) == cell = "1"

\* line 65: grid[y][x] !== null
IsClaimed(cell) == cell # Null

\* lines 60-61, 66-67: floor(c * scaleFactor), scaleFactor = width / GRID_SIZE.
Scaled(c) == (c * ImageWidth) \div GRID_SIZE

\* lines 63-72: one filled square per lattice coordinate.
Fill(g) ==
  {[sx |-> Scaled(p[1]), sy |-> Scaled(p[2]), size |-> Scaled(TOKEN_SIZE),
    color |-> generatePixelColor(p[1], p[2], IsClaimed(g[p[2]][p[1]]))] :
     p \in Coords \X Coords}

\* line 74: newPixelX !== null && newPixelY !== null
HighlightStepRuns(nx, ny) == nx # JsNull /\ ny # JsNull

\* lines 76-82: the square the blend is applied to.  For an undefined
\* argument the scaled coordinate is NaN and the scan covers no pixel.
Blended(nx, ny) ==
  IF nx.t = "number" /\ ny.t = "number"
    THEN {[sx |-> Scaled(nx.v), sy |-> Scaled(ny.v), size |-> Scaled(TOKEN_SIZE)]}
    ELSE {}

GenerateImage(g, nx, ny) ==
  [fill |-> Fill(g),
   highlightStep |-> HighlightStepRuns(nx, ny),
   blended |-> IF HighlightStepRuns(nx, ny) THEN Blended(nx, ny) ELSE {}]

NoImage == [fill |-> {}, highlightStep |-> FALSE, blended |-> {}]

\* line 157: userPixels[fid] || [] ; line 158: res.json({ pixels }).  An
\* inherited property is truthy and is no list: JSON leaves the function
\* out and the body has no pixels at all.
UserPixelsReply(u, f) ==
  IF f \in DOMAIN u THEN [fid |-> f, kind |-> "list", pixels |-> u[f]]
  ELSE IF f \in ObjectPrototypeKeys THEN [fid |-> f, kind |-> "missing", pixels |-> <<>>]
  ELSE [fid |-> f, kind |-> "list", pixels |-> <<>>]

NoReply == [fid |-> Null, kind |-> "none", pixels |-> <<>>]

\* frameImage and pixelsReply hold the reply of the step just taken: any
\* other step finds the reply sent and the variable free again.
RepliesSent == frameImage' = NoImage /\ pixelsReply' = NoReply

(***************************************************************************)
(* Initial states: the process has started on the snapshot an earlier run  *)
(* left, which holds the first k claims (k = 0: no snapshot).              *)
(***************************************************************************)
\* The snapshot is absent, one claim short of full, or full.
EarlierClaims == {0, LatticeSide * LatticeSide - 1, LatticeSide * LatticeSide}

EarlierOwner(k) == IF k % 2 = 1 THEN "1" ELSE "2"

RECURSIVE EarlierRun(_)
EarlierRun(k) ==
  IF k = 0 THEN [grid |-> EmptyGrid, userPixels |-> EmptyUserPixels, grants |-> <<>>]
  ELSE LET s == EarlierRun(k - 1)
           pos == Scan(s.grid)
           f == EarlierOwner(k)
       IN [grid |-> MarkCell(s.grid, pos, f),
           userPixels |-> PushPixel(s.userPixels, f, pos),
           grants |-> Append(s.grants, [req |-> 0, fid |-> f, pos |-> pos])]

Init ==
  \E k \in EarlierClaims :
    LET s == EarlierRun(k)
        gf == IF k = 0 THEN AbsentFile ELSE StringifyGrid(s.grid)
        uf == IF k = 0 THEN AbsentFile ELSE StringifyUsers(s.userPixels)
    IN /\ gridFile = gf
       /\ userFile = uf
       /\ grid = LoadData(gf, uf).grid
       /\ userPixels = LoadData(gf, uf).userPixels
       /\ grants = s.grants
       /\ up = TRUE
       /\ crashes = 0
       /\ pc = [r \in Reqs |-> "idle"]
       /\ hub = [r \in Reqs |-> "none"]
       /\ signer = [r \in Reqs |-> Null]
       /\ fid = [r \in Reqs |-> Null]
       /\ claimedPosition = [r \in Reqs |-> NoPos]
       /\ buf = [r \in Reqs |-> AbsentFile]
       /\ err = [r \in Reqs |-> "none"]
       /\ response = [r \in Reqs |-> "none"]
       /\ events = [r \in Reqs |-> <<>>]
       /\ image = [r \in Reqs |-> NoImage]
       /\ frameImage = NoImage
       /\ pixelsReply = NoReply

(***************************************************************************)
(* POST /api/frame (lines 172-216).                                        *)
(***************************************************************************)
\* lines 172-175: the request arrives and the handler awaits the verification.
Request(r) ==
  /\ up
  /\ pc[r] = "idle"
  /\ pc' = [pc EXCEPT ![r] = "verify"]
  /\ UNCHANGED <<memory, disk, up, crashes, locals, grants, image>>
  /\ RepliesSent

\* lines 175-177: the verification came to false.
Reject(r, h) ==
  /\ hub' = [hub EXCEPT ![r] = h]
  /\ response' = [response EXCEPT ![r] = "invalid_signature"]
  /\ events' = [events EXCEPT ![r] = Append(@, "respond")]
  /\ pc' = [pc EXCEPT ![r] = "done"]
  /\ UNCHANGED <<memory, disk, up, crashes, signer, fid, claimedPosition, buf, err,
                 grants, image>>
  /\ RepliesSent

\* lines 179-203 up to the next await, for a message signed by s and the
\* fid f of the request body.  Line 179 reads the owner from untrustedData;
\* the verification (lines 91-101) looked at trustedData only.
Claim(r, h, s, f) ==
  LET pos == Scan(grid)
      claimed == pos # NoPos
      g == IF claimed THEN MarkCell(grid, pos, f) ELSE grid
  IN /\ hub' = [hub EXCEPT ![r] = h]
     /\ signer' = [signer EXCEPT ![r] = s]
     /\ fid' = [fid EXCEPT ![r] = f]
     /\ claimedPosition' = [claimedPosition EXCEPT ![r] = pos]
     /\ grid' = g
     /\ grants' = IF claimed THEN Append(grants, [req |-> r, fid |-> f, pos |-> pos])
                  ELSE grants
     /\ IF claimed /\ PushThrows(userPixels, f)
          THEN /\ userPixels' = userPixels
               /\ err' = [err EXCEPT ![r] = "TypeError"]
               /\ pc' = [pc EXCEPT ![r] = "rejected"]
               /\ events' = [events EXCEPT ![r] = Append(@, "mutate")]
               /\ buf' = buf
               /\ image' = image
          ELSE /\ userPixels' = IF claimed THEN PushPixel(userPixels, f, pos) ELSE userPixels
               /\ pc' = [pc EXCEPT ![r] = AfterClaim(claimed)]
               /\ events' = [events EXCEPT ![r] = IF claimed THEN Append(@, "mutate") ELSE @]
               /\ buf' = [buf EXCEPT ![r] =
                            IF AfterClaim(claimed) = "grid_queued" THEN StringifyGrid(g) ELSE @]
               /\ image' = [image EXCEPT ![r] =
                              IF AfterClaim(claimed) = "render"
                                THEN GenerateImage(g, OptionalX(pos), OptionalY(pos))
                                ELSE @]
               /\ err' = err
     /\ UNCHANGED <<disk, up, crashes, response>>
     /\ RepliesSent

\* The verification resolves and the handler runs to its next await.
VerifyWith(r, bodyFids) ==
  /\ up
  /\ pc[r] = "verify"
  /\ \E h \in HubResults :
       IF Verified(h)
         THEN \E s \in Signers : \E f \in bodyFids : Claim(r, h, s, f)
         ELSE Reject(r, h)

Verify(r) == VerifyWith(r, FIDs)

\* The same step when the body may also carry a non-finite number as fid.
VerifyAnyFid(r) == VerifyWith(r, FIDs \cup NonFiniteFids)

(***************************************************************************)
(* fs.writeFile, as the runtime carries it out: the file is opened with    *)
(* truncation, the data is written, and the promise resolves.              *)
(***************************************************************************)
FsOpen(r) ==
  /\ up
  /\ \/ /\ pc[r] = "grid_queued"
        /\ gridFile' = TornFile
        /\ userFile' = userFile
        /\ pc' = [pc EXCEPT ![r] = "grid_open"]
     \/ /\ pc[r] = "users_queued"
        /\ userFile' = TornFile
        /\ gridFile' = gridFile
        /\ pc' = [pc EXCEPT ![r] = "users_open"]
  /\ UNCHANGED <<memory, up, crashes, locals, grants, image>>
  /\ RepliesSent

\* line 39 resolves; line 40 stringifies userPixels and starts the second write.
GridWritten(r) ==
  /\ up
  /\ pc[r] = "grid_open"
  /\ gridFile' = buf[r]
  /\ buf' = [buf EXCEPT ![r] = StringifyUsers(userPixels)]
  /\ events' = [events EXCEPT ![r] = Append(@, "grid_written")]
  /\ pc' = [pc EXCEPT ![r] = "users_queued"]
  /\ UNCHANGED <<memory, userFile, up, crashes, hub, signer, fid, claimedPosition, err,
                 response, grants, image>>
  /\ RepliesSent

\* line 40 resolves, saveData returns, line 203 calls generateImage.
UsersWritten(r) ==
  /\ up
  /\ pc[r] = "users_open"
  /\ userFile' = buf[r]
  /\ events' = [events EXCEPT ![r] = Append(@, "users_written")]
  /\ pc' = [pc EXCEPT ![r] = "render"]
  /\ image' = [image EXCEPT ![r] =
                 GenerateImage(grid, OptionalX(claimedPosition[r]),
                               OptionalY(claimedPosition[r]))]
  /\ UNCHANGED <<memory, gridFile, up, crashes, hub, signer, fid, claimedPosition, buf, err,
                 response, grants>>
  /\ RepliesSent

\* A write fails (EACCES at open, ENOSPC or EIO while writing): saveData
\* rejects, nothing catches it, and the handler ends without a response.
WriteFails(r) ==
  /\ up
  /\ pc[r] \in {"grid_queued", "grid_open", "users_queued", "users_open"}
  /\ err' = [err EXCEPT ![r] = "EIO"]
  /\ pc' = [pc EXCEPT ![r] = "rejected"]
  /\ UNCHANGED <<memory, disk, up, crashes, hub, signer, fid, claimedPosition, buf,
                 response, events, grants, image>>
  /\ RepliesSent

\* lines 203-215: generateImage resolves and the response is sent.
Respond(r) ==
  /\ up
  /\ pc[r] = "render"
  /\ response' = [response EXCEPT ![r] =
                    IF claimedPosition[r] # NoPos THEN "claimed" ELSE "no_space"]
  /\ events' = [events EXCEPT ![r] = Append(@, "respond")]
  /\ pc' = [pc EXCEPT ![r] = "done"]
  /\ UNCHANGED <<memory, disk, up, crashes, hub, signer, fid, claimedPosition, buf, err,
                 grants, image>>
  /\ RepliesSent

(***************************************************************************)
(* The read-only endpoints.                                                *)
(***************************************************************************)
\* lines 161-165: GET /frame-image paints with no highlight.
FrameImage ==
  /\ up
  /\ frameImage' = GenerateImage(grid, JsNull, JsNull)
  /\ pixelsReply' = NoReply
  /\ UNCHANGED <<memory, disk, up, crashes, pc, locals, grants, image>>

\* lines 155-159: GET /api/user-pixels?fid=f
UserPixels(f) ==
  /\ up
  /\ pixelsReply' = UserPixelsReply(userPixels, f)
  /\ frameImage' = NoImage
  /\ UNCHANGED <<memory, disk, up, crashes, pc, locals, grants, image>>

(***************************************************************************)
(* The process dies (killed, power loss, or an unhandled rejection on a    *)
(* runtime that exits on it) and is started again.                         *)
(***************************************************************************)
InFlight == {"verify", "grid_queued", "grid_open", "users_queued", "users_open", "render"}

Crash ==
  /\ up
  /\ crashes < MaxCrash
  /\ up' = FALSE
  /\ crashes' = crashes + 1
  /\ pc' = [r \in Reqs |-> IF pc[r] \in InFlight THEN "killed" ELSE pc[r]]
  /\ grid' = EmptyGrid
  /\ userPixels' = EmptyUserPixels
  /\ UNCHANGED <<disk, locals, grants, image>>
  /\ RepliesSent

\* lines 22-23 and 218-222: fresh state, loadData, then listen.
Restart ==
  /\ ~up
  /\ grid' = LoadData(gridFile, userFile).grid
  /\ userPixels' = LoadData(gridFile, userFile).userPixels
  /\ up' = TRUE
  /\ UNCHANGED <<disk, crashes, pc, locals, grants, image>>
  /\ RepliesSent

Next ==
  \E r \in Reqs :
    \/ Request(r)
    \/ Verify(r)
    \/ FsOpen(r)
    \/ GridWritten(r)
    \/ UsersWritten(r)
    \/ WriteFails(r)
    \/ Respond(r)

NextCrash == Next \/ Crash \/ Restart

NextAnyFid ==
  \E r \in Reqs :
    \/ Request(r)
    \/ VerifyAnyFid(r)
    \/ FsOpen(r)
    \/ GridWritten(r)
    \/ UsersWritten(r)
    \/ WriteFails(r)
    \/ Respond(r)

NextFrames == Next \/ FrameImage

NextReads == NextFrames \/ (\E f \in FIDs : UserPixels(f))

\* One run of the process.
Spec == Init /\ [][Next]_vars

\* One run of the process, with bodies whose fid is any JSON number or string.
SpecAnyFid == Init /\ [][NextAnyFid]_vars

\* One run of the process, with GET /frame-image in use.
SpecFrames == Init /\ [][NextFrames]_vars

\* One run of the process, with both read-only endpoints in use.
SpecReads == Init /\ [][NextReads]_vars

\* Runs of the process with crashes and restarts between them.
SpecCrash == Init /\ [][NextCrash]_vars


(***************************************************************************)
(* Properties.                                                             *)
(***************************************************************************)
NumCells == LatticeSide * LatticeSide

Full(g) == \A y \in Coords : \A x \in Coords : g[y][x] # Null

\* The entries of the claim index that name position p.
Listings(u, p) == {e \in {<<f, i>> : f \in DOMAIN u, i \in 1..NumCells} :
                     e[2] <= Len(u[e[1]]) /\ u[e[1]][e[2]] = p}

\* The correspondence of section 3 of the specification: every listed
\* position is a cell of its owner, and every claimed cell is listed once.
Corresponds(g, u) ==
  /\ \A f \in DOMAIN u : \A i \in 1..Len(u[f]) : g[u[f][i].y][u[f][i].x] = f
  /\ \A y \in Coords : \A x \in Coords :
       g[y][x] # Null => Cardinality(Listings(u, [x |-> x, y |-> y])) = 1

\* The coordinate the specification gives for the N-th claim, N from 0.
NthCoord(n) == [x |-> (n * TOKEN_SIZE) % GRID_SIZE,
                y |-> ((n * TOKEN_SIZE) \div GRID_SIZE) * TOKEN_SIZE]

ClaimedCells(g) == {p \in [x : Coords, y : Coords] : g[p.y][p.x] # Null}

\* C1: no two grants, and no two success responses, name the same
\* coordinate, however the handlers interleave at their awaits.
NoDoubleGrant ==
  /\ \A i \in 1..Len(grants) : \A j \in 1..Len(grants) :
       i # j => grants[i].pos # grants[j].pos
  /\ \A r1 \in Reqs : \A r2 \in Reqs :
       (r1 # r2 /\ response[r1] = "claimed" /\ response[r2] = "claimed")
         => claimedPosition[r1] # claimedPosition[r2]

\* Two handlers that both hold a granted cell are in flight at once.
OverlappingGrants ==
  \E r1 \in Reqs : \E r2 \in Reqs :
    /\ r1 # r2
    /\ pc[r1] \in InFlight /\ pc[r2] \in InFlight
    /\ claimedPosition[r1] # NoPos /\ claimedPosition[r2] # NoPos

\* C2: counted from the empty grid, the N-th grant (from 0) is at
\* (N*TOKEN_SIZE mod GRID_SIZE, floor(N*TOKEN_SIZE/GRID_SIZE)*TOKEN_SIZE),
\* and the claimed cells are a prefix of the row-major order.
RowMajorOrder ==
  /\ \A n \in 1..Len(grants) : grants[n].pos = NthCoord(n - 1)
  /\ ClaimedCells(grid) = {NthCoord(n - 1) : n \in 1..Len(grants)}

\* A request was granted a cell beyond the first row.
GrantBeyondFirstRow ==
  \E n \in 1..Len(grants) : grants[n].req # 0 /\ grants[n].pos.y > 0

\* C3: at every point where another handler can run, Grid and ClaimIndex
\* correspond one to one.
GridMatchesClaimIndex == Corresponds(grid, userPixels)

\* C4: after a restart, every coordinate whose claim was answered with
\* success is still claimed by its owner.
AckedClaimSurvivesRestart ==
  up => \A r \in Reqs :
          response[r] = "claimed"
            => grid[claimedPosition[r].y][claimedPosition[r].x] = fid[r]

\* C5: whenever the process is started again, the grid and the claim index
\* it loads correspond one to one.
ReloadedPairAgrees ==
  [][(~up /\ up') => Corresponds(grid', userPixels')]_vars

\* C6: a success response comes after both writes of the saveData call that
\* followed the claim's mutation: mutate, persist, respond.
PersistBeforeSuccess ==
  \A r \in Reqs :
    response[r] = "claimed"
      => events[r] = <<"mutate", "grid_written", "users_written", "respond">>

\* A claim has been answered with success.
SuccessAnswered == \E r \in Reqs : response[r] = "claimed"

\* C7: a claim whose saveData failed is not left in memory: its cell is
\* unclaimed again and its coordinate is off the owner's list.
FailedSaveLeavesNoClaim ==
  \A r \in Reqs :
    (pc[r] = "rejected" /\ err[r] = "EIO")
      => /\ grid[claimedPosition[r].y][claimedPosition[r].x] = Null
         /\ Listings(userPixels, claimedPosition[r]) = {}

\* C8: a request whose saveData failed has ended with a response, a failure
\* that is neither the no-space outcome nor the invalid-signature rejection.
FailedSaveAnswered ==
  \A r \in Reqs :
    (pc[r] = "rejected" /\ err[r] = "EIO")
      => response[r] \notin {"none", "claimed", "no_space", "invalid_signature"}

\* C9: with every cell claimed, a verified request goes straight to the
\* render, is answered no_space, and its steps leave the grid, the claim
\* index and both files as they were; it never starts a write.
CanvasFullLeavesState ==
  [][\A r \in Reqs :
       /\ (/\ pc[r] = "verify" /\ pc'[r] # "verify" /\ hub'[r] = "valid"
           /\ Full(grid) /\ Len(grants) = NumCells)
            => /\ pc'[r] = "render"
               /\ claimedPosition'[r] = NoPos
               /\ UNCHANGED <<grid, userPixels, gridFile, userFile, grants>>
       /\ (pc[r] = "render" /\ claimedPosition[r] = NoPos /\ pc'[r] # "render")
            => /\ pc'[r] = "done"
               /\ response'[r] = "no_space"
               /\ events'[r] = <<"respond">>
               /\ UNCHANGED <<grid, userPixels, gridFile, userFile, grants>>
    ]_vars

\* A request was answered no_space after all the cells had been granted.
NoSpaceAnswered ==
  \E r \in Reqs : response[r] = "no_space" /\ Len(grants) = NumCells

\* C10: a request whose verification comes to false is answered with the
\* rejection in the same step, which claims nothing and leaves the grid,
\* the claim index and both files as they were.
InvalidSignatureNoClaim ==
  [][\A r \in Reqs :
       (pc[r] = "verify" /\ pc'[r] # "verify" /\ hub'[r] # "valid")
         => /\ pc'[r] = "done"
            /\ response'[r] = "invalid_signature"
            /\ claimedPosition'[r] = NoPos
            /\ UNCHANGED <<grid, userPixels, gridFile, userFile, grants>>
    ]_vars

\* One request was rejected for a message the hub found not valid, another
\* for an error of the verification.
BothRejectionsSeen ==
  \E r1 \in Reqs : \E r2 \in Reqs :
    /\ hub[r1] = "invalid" /\ response[r1] = "invalid_signature"
    /\ hub[r2] = "error" /\ response[r2] = "invalid_signature"


\* C11: the owner recorded for a grant is the identity that signed the
\* message whose verification let the request through.
OwnerIsVerifiedSigner ==
  \A r \in Reqs :
    claimedPosition[r] # NoPos
      => /\ fid[r] = signer[r]
         /\ grid[claimedPosition[r].y][claimedPosition[r].x] = signer[r]


\* C12: a claimed cell stays claimed by the same owner through every step
\* (claim, save, render, query).
CellClaimedOnce ==
  [][\A y \in Coords : \A x \in Coords :
       grid[y][x] # Null => grid'[y][x] = grid[y][x]]_vars

\* Two claims were answered and the canvas has just been rendered.
RenderedAfterTwoClaims ==
  /\ frameImage # NoImage
  /\ \E r1 \in Reqs : \E r2 \in Reqs :
       r1 # r2 /\ response[r1] = "claimed" /\ response[r2] = "claimed"

\* C13: saving the state a sequence of claims has produced and loading it
\* again gives the same grid and the same per-owner lists, so the next claim
\* is granted the same coordinates.
SaveLoadRoundTrip ==
  LET s == LoadData(StringifyGrid(grid), StringifyUsers(userPixels))
  IN /\ s.grid = grid
     /\ s.userPixels = userPixels
     /\ Scan(s.grid) = Scan(grid)

\* The coordinates granted to owner f, in the order of the grants.
GrantedTo(f) ==
  LET own == SelectSeq(grants, LAMBDA e : e.fid = f)
  IN [i \in 1..Len(own) |-> own[i].pos]

\* C14: for every owner the claim index holds exactly the coordinates
\* granted to that owner, in grant order, and a user query answers with that
\* list (the empty list for an identity with no claims).
ClaimIndexIsGrantSequence ==
  /\ \A f \in FIDs :
       GrantedTo(f) = (IF f \in DOMAIN userPixels THEN userPixels[f] ELSE <<>>)
  /\ pixelsReply # NoReply
       => /\ pixelsReply.kind = "list"
          /\ pixelsReply.pixels = GrantedTo(pixelsReply.fid)

\* C15: a start leaves either the pair restored from the two files or, with
\* no snapshot, the fresh grid with the empty index; never one restored and
\* the other fresh.
LoadedPairOrFresh ==
  [][(~up /\ up')
       => \/ grid' = EmptyGrid /\ userPixels' = EmptyUserPixels
          \/ /\ gridFile.st = "json" /\ grid' = ParseGrid(gridFile.grid)
             /\ userFile.st = "json" /\ userPixels' = ParseUsers(userFile.users)]_vars

\* A load that fails for another reason than a missing file: a file that
\* is there does not parse.
LoadFailure(gf, uf) == gf.st = "torn" \/ (gf.st = "json" /\ uf.st = "torn")

\* C16: the server never starts serving after a load that failed for
\* another reason than a missing snapshot.
FailedLoadAbortsStartup ==
  [][(~up /\ up') => ~LoadFailure(gridFile, userFile)]_vars

\* The grid with every owner replaced by one and the same owner: all that
\* is left of a grid is which cells are claimed.
Canon(g) ==
  [y \in Coords |-> [x \in Coords |-> IF g[y][x] = Null THEN Null ELSE "1"]]

\* C17: every image a step produces is the image of the owner-erased grid
\* with the same highlight; so two grids with the same claimed cells give
\* the same image, whoever owns the cells.
RenderIgnoresOwners ==
  [][/\ frameImage' # NoImage
          => frameImage' = GenerateImage(Canon(grid'), JsNull, JsNull)
     /\ \A r \in Reqs :
          image'[r] # image[r]
            => image'[r] = GenerateImage(Canon(grid'), OptionalX(claimedPosition'[r]),
                                         OptionalY(claimedPosition'[r]))]_vars

\* Both kinds of render have happened over a grid of two owners.
RenderedOverTwoOwners ==
  /\ frameImage # NoImage
  /\ \E r \in Reqs : image[r] # NoImage /\ image[r].blended # {}
  /\ \E y1 \in Coords, x1 \in Coords, y2 \in Coords, x2 \in Coords :
       grid[y1][x1] = "1" /\ grid[y2][x2] = "2"

\* C18: the image of a request that found no free cell is painted without
\* running the highlight step, as GET /frame-image paints it.
NoSpaceRenderSkipsHighlight ==
  \A r \in Reqs :
    (claimedPosition[r] = NoPos /\ image[r] # NoImage)
      => /\ ~image[r].highlightStep
         /\ image[r] = GenerateImage(grid, JsNull, JsNull)

\* C19: the grid a render reads is one state of the grid, between the steps
\* of the handlers, and it corresponds to the claim index.
RenderReadsConsistentState ==
  [][(frameImage' # NoImage \/ \E r \in Reqs : image'[r] # image[r])
       => /\ \/ frameImage' = GenerateImage(grid', JsNull, JsNull)
             \/ \E r \in Reqs : image'[r].fill = Fill(grid')
          /\ Corresponds(grid', userPixels')]_vars

\* C20: with no request in flight and none ended by a failure, what the two
\* files hold is what memory holds.
QuiescentSnapshotMatchesMemory ==
  (\A r \in Reqs : pc[r] \in {"idle", "done"})
    => LoadData(gridFile, userFile) = [grid |-> grid, userPixels |-> userPixels]

====
